---- MODULE Spec2Model ----
(***************************************************************************)
(* Model of the rad library: the binary-lifting lowest-common-ancestor     *)
(* table (src/src/lca.rs), the binary max-heap (src/src/heap.rs) and the   *)
(* union-find structure (src/src/disjoint_set.rs).                         *)
(*                                                                         *)
(* Vectors indexed from 0 in the source are functions on 0..n-1 here.      *)
(* A Rust panic (a failed bounds check) is the outcome "panic".            *)
(***************************************************************************)
EXTENDS Integers, Sequences, FiniteSets, TLC

VARIABLES
    graph,      \* LCA::new argument: [n |-> node_count, edges |-> set of {a, b}]
    root,       \* LCA::new argument: the root's index
    lca,        \* the LCA value under construction / built: [jump_table, depth]
    queue,      \* the BFS queue of LCA::new
    order,      \* history: the vertices dequeued by the BFS loop, in order
    pc,         \* position of LCA::new: "call", "bfs", "built", "panic", "idle"
    last,       \* the last LCA::lca call: [u, v, res, before (the table it got)]
    xs,         \* Heap.xs
    h_last,     \* the last Heap call: [op, arg, ret, before (xs as the call got it)]
    parent,     \* DisjointSet.parent
    size,       \* DisjointSet.size
    rank,       \* DisjointSet.rank
    blocks,     \* history: the classes of the reflexive-symmetric-transitive
                \* closure of the pairs passed to join so far
    ds_last     \* the last DisjointSet call: [op, u, v, ret, before (blocks before)]

lcaVars == <<graph, root, lca, queue, order, pc, last>>
heapVars == <<xs, h_last>>
dsVars == <<parent, size, rank, blocks, ds_last>>
vars == <<graph, root, lca, queue, order, pc, last, xs, h_last,
          parent, size, rank, blocks, ds_last>>

(***************************************************************************)
(* Bounds of the model.                                                    *)
(***************************************************************************)
\* Graphs of any shape (trees, forests, graphs with a cycle) have up to MaxN vertices.
MaxN == 4
\* Path-shaped trees 0-1-...-(n-1) have up to MaxPath vertices.
MaxPath == 7
\* The heap holds up to MaxHeap elements, drawn from 0..MaxVal.
MaxHeap == 6
MaxVal == 3
\* DisjointSet::new(n) is called with n up to MaxSet.
MaxSet == 4

\* usize::MAX, the "unset" / "no ancestor" sentinel: the largest value of the
\* index type (here the largest integer of the checker's integer width).
NONE == 2147483647

Min2(a, b) == IF a < b THEN a ELSE b

RECURSIVE Pow2(_)
Pow2(i) == IF i = 0 THEN 1 ELSE 2 * Pow2(i - 1)

\* (k & (1 << i)) != 0
BitSet(k, i) == (k \div Pow2(i)) % 2 = 1

(***************************************************************************)
(* src/src/lca.rs                                                          *)
(***************************************************************************)

\* Mutant of log2: the loop test written "x <= n".
RECURSIVE log2_le_loop(_, _, _)
log2_le_loop(x, count, n) ==
    IF x <= n THEN log2_le_loop(x * 2, count + 1, n) ELSE count

log2_le(n) == log2_le_loop(1, 0, n)

\* LCA::log2: the loop "while x < n { x *= 2; count += 1 }".
RECURSIVE log2_loop(_, _, _)
log2_loop(x, count, n) ==
    IF x < n THEN log2_loop(x * 2, count + 1, n) ELSE count

log2(n) == log2_loop(1, 0, n)

\* The value built at lines 29-32: every entry is usize::MAX.
NewTable(n, levels) ==
    [jump_table |-> [i \in 0..(levels - 1) |-> [v \in 0..(n - 1) |-> NONE]],
     depth |-> [v \in 0..(n - 1) |-> NONE]]

Levels(t) == Cardinality(DOMAIN t.jump_table)
NodeCount(t) == Cardinality(DOMAIN t.depth)
InRange(t, x) == x \in DOMAIN t.depth

\* graph.neighbors(u): the vertices sharing an edge with u (a self-loop or a
\* parallel edge only repeats a vertex whose depth is already set).
Neighbors(g, u) == {v \in 0..(g.n - 1) : v /= u /\ {u, v} \in g.edges}

\* The orders in which an iterator may yield the elements of S.
Orders(S) ==
    {s \in [1..Cardinality(S) -> S] : \A i, j \in DOMAIN s : i /= j => s[i] /= s[j]}

\* Mutant of FillLevels: jump_table[i][v] = ancestor, without the second hop.
RECURSIVE FillLevels_one_hop(_, _, _)
FillLevels_one_hop(jt, v, i) ==
    IF i >= Cardinality(DOMAIN jt) THEN jt
    ELSE LET ancestor == jt[i - 1][v]
         IN IF ancestor /= NONE
            THEN FillLevels_one_hop([jt EXCEPT ![i][v] = ancestor], v, i + 1)
            ELSE FillLevels_one_hop(jt, v, i + 1)

\* Lines 47-52: for i in 1..levels, fill jump_table[i][v] from level i - 1.
RECURSIVE FillLevels(_, _, _)
FillLevels(jt, v, i) ==
    IF i >= Cardinality(DOMAIN jt) THEN jt
    ELSE LET ancestor == jt[i - 1][v]
         IN IF ancestor /= NONE
            THEN FillLevels([jt EXCEPT ![i][v] = jt[i - 1][ancestor]], v, i + 1)
            ELSE FillLevels(jt, v, i + 1)

\* Mutant of Discover: depth[v] = depth[u], the "+ 1" forgotten.
Discover_same_depth(t, u, v) ==
    LET jt0 == [t.jump_table EXCEPT ![0][v] = u]
    IN [jump_table |-> FillLevels(jt0, v, 1),
        depth |-> [t.depth EXCEPT ![v] = t.depth[u]]]

\* Lines 43-53: the body of the neighbour loop for one neighbour v of u.
Discover(t, u, v) ==
    LET jt0 == [t.jump_table EXCEPT ![0][v] = u]
    IN [jump_table |-> FillLevels(jt0, v, 1),
        depth |-> [t.depth EXCEPT ![v] = t.depth[u] + 1]]

\* Lines 40-56: the closure explore(u), over the neighbours in iteration order.
RECURSIVE explore_loop(_, _, _, _, _)
explore_loop(t, u, nbrs, k, to_explore) ==
    IF k > Len(nbrs) THEN [lca |-> t, to_explore |-> to_explore]
    ELSE LET v == nbrs[k]
         IN IF t.depth[v] = NONE
            THEN explore_loop(Discover(t, u, v), u, nbrs, k + 1, Append(to_explore, v))
            ELSE explore_loop(t, u, nbrs, k + 1, to_explore)

explore(t, u, nbrs) == explore_loop(t, u, nbrs, 1, <<>>)

\* LCA::jump: for i in (0..levels).rev().
RECURSIVE jump_loop(_, _, _, _)
jump_loop(t, u, k, i) ==
    IF i < 0 THEN u
    ELSE IF u /= NONE /\ BitSet(k, i)
         THEN jump_loop(t, t.jump_table[i][u], k, i - 1)
         ELSE jump_loop(t, u, k, i - 1)

\* Mutant of jump: the loop runs over (0..levels - 1).rev(), the top level skipped.
jump_skip_top(t, u, k) == jump_loop(t, u, k, Levels(t) - 2)

jump(t, u, k) == jump_loop(t, u, k, Levels(t) - 1)

\* Mutant of search_loop: the loop runs over (1..levels).rev(), level 0 skipped.
RECURSIVE search_loop_from1(_, _, _, _)
search_loop_from1(t, u, v, i) ==
    IF i < 1 THEN u
    ELSE LET pu == t.jump_table[i][u]
             pv == t.jump_table[i][v]
         IN IF pu /= NONE /\ pv /= NONE /\ pu /= pv
            THEN search_loop_from1(t, pu, pv, i - 1)
            ELSE search_loop_from1(t, u, v, i - 1)

\* Lines 94-101: the binary search over the levels; yields the final u.
RECURSIVE search_loop(_, _, _, _)
search_loop(t, u, v, i) ==
    IF i < 0 THEN u
    ELSE LET pu == t.jump_table[i][u]
             pv == t.jump_table[i][v]
         IN IF pu /= NONE /\ pv /= NONE /\ pu /= pv
            THEN search_loop(t, pu, pv, i - 1)
            ELSE search_loop(t, u, v, i - 1)

\* LCA::lca, lines 82-87, for u and v that are indices of depth: the pair
\* after the two jumps that bring u and v to equal depth (the second
\* comparison indexes depth with the v the first jump gave).
equalize(t, u, v) ==
    LET v1 == IF t.depth[u] < t.depth[v]
              THEN jump(t, v, t.depth[v] - t.depth[u]) ELSE v
        u1 == IF InRange(t, v1) /\ t.depth[u] > t.depth[v1]
              THEN jump(t, u, t.depth[u] - t.depth[v1]) ELSE u
    IN [u |-> u1, v |-> v1]

Panic == [status |-> "panic", value |-> NONE]
Ok(x) == [status |-> "ok", value |-> x]

\* The bounds checks of self.depth[u] and self.depth[v] at line 82.
ArgsInRange(t, u, v) == InRange(t, u) /\ InRange(t, v)

\* LCA::lca from line 83 on, for u and v that passed the bounds checks of
\* line 82. Indexing a Vec outside its length panics.
lca_body(t, u, v) ==
         LET v1 == IF t.depth[u] < t.depth[v]
                   THEN jump(t, v, t.depth[v] - t.depth[u]) ELSE v
         IN IF ~InRange(t, v1) THEN Panic
            ELSE LET u1 == IF t.depth[u] > t.depth[v1]
                           THEN jump(t, u, t.depth[u] - t.depth[v1]) ELSE u
                 IN IF u1 = v1 THEN Ok(u1)
                    ELSE IF ~InRange(t, u1) \/ Levels(t) = 0 THEN Panic
                    ELSE Ok(t.jump_table[0][search_loop(t, u1, v1, Levels(t) - 1)])

\* Mutant of lca_query: an index past the end wraps around instead of failing.
lca_query_wrap(t, u, v) ==
    IF NodeCount(t) = 0 THEN Panic
    ELSE lca_body(t, u % NodeCount(t), v % NodeCount(t))

\* LCA::lca: self.depth[u] < self.depth[v] at line 82 panics unless both are
\* indices of depth.
lca_query(t, u, v) ==
    IF ~ArgsInRange(t, u, v) THEN Panic ELSE lca_body(t, u, v)

(***************************************************************************)
(* Inputs of LCA::new.                                                     *)
(***************************************************************************)
Pairs(n) == {{a, b} : a, b \in 0..(n - 1)} \ {{a} : a \in 0..(n - 1)}

\* Every graph on up to MaxN vertices with at most as many edges as vertices:
\* every tree, every forest, and every tree or forest with one edge too many.
AllGraphs ==
    UNION {{[n |-> n, edges |-> E] : E \in {F \in SUBSET Pairs(n) : Cardinality(F) <= n}}
           : n \in 0..MaxN}

PathGraph(n) == [n |-> n, edges |-> {{a, a + 1} : a \in 0..(n - 2)}]

\* tests::simple_graph
simple_graph ==
    [n |-> 7, edges |-> {{0, 1}, {0, 2}, {1, 3}, {1, 4}, {2, 5}, {2, 6}}]

GraphInputs == AllGraphs \cup {PathGraph(n) : n \in 1..MaxPath} \cup {simple_graph}

NoCall ==
    [u |-> NONE, v |-> NONE, res |-> [status |-> "none", value |-> NONE],
     before |-> NewTable(0, 0)]

LcaIdle ==
    /\ graph = [n |-> 0, edges |-> {}]
    /\ root = 0
    /\ lca = NewTable(0, 0)
    /\ queue = <<>>
    /\ order = <<>>
    /\ pc = "idle"
    /\ last = NoCall

LcaInit ==
    /\ graph \in GraphInputs
    /\ root \in 0..graph.n
    /\ lca = NewTable(0, 0)
    /\ queue = <<>>
    /\ order = <<>>
    /\ pc = "call"
    /\ last = NoCall

\* Mutant of NewBegin: the write of depth[root] is skipped for a root that is
\* no index of depth, and the BFS starts all the same.
NewBegin_unchecked_root ==
    /\ pc = "call"
    /\ LET n == graph.n
           levels == log2(n)
           t == NewTable(n, levels)
       IN /\ lca' = IF InRange(t, root) THEN [t EXCEPT !.depth[root] = 0] ELSE t
          /\ queue' = <<root>>
          /\ pc' = "bfs"
    /\ UNCHANGED <<graph, root, order, last>>
    /\ UNCHANGED <<heapVars, dsVars>>

\* LCA::new, lines 27-37: allocate the table, push the root and set its depth.
\* The write depth[root.index()] = 0 panics when root is not an index of depth:
\* the locals (the table, the queue holding root) are dropped and nothing is
\* returned.
NewBegin ==
    /\ pc = "call"
    /\ LET n == graph.n
           levels == log2(n)
           t == NewTable(n, levels)
       IN IF InRange(t, root)
          THEN /\ lca' = [t EXCEPT !.depth[root] = 0]
               /\ queue' = <<root>>
               /\ pc' = "bfs"
          ELSE /\ lca' = lca
               /\ queue' = queue
               /\ pc' = "panic"
    /\ UNCHANGED <<graph, root, order, last>>
    /\ UNCHANGED <<heapVars, dsVars>>

\* Mutant of BfsStep: queue.pop_back() in place of queue.pop_front().
BfsStep_pop_back ==
    /\ pc = "bfs"
    /\ queue /= <<>>
    /\ LET u == queue[Len(queue)]
       IN \E nbrs \in Orders(Neighbors(graph, u)) :
            LET r == explore(lca, u, nbrs)
            IN /\ lca' = r.lca
               /\ queue' = SubSeq(queue, 1, Len(queue) - 1) \o r.to_explore
               /\ order' = Append(order, u)
    /\ UNCHANGED <<graph, root, pc, last>>
    /\ UNCHANGED <<heapVars, dsVars>>

\* One iteration of the BFS loop, lines 59-64, with Some(u) popped.
BfsStep ==
    /\ pc = "bfs"
    /\ queue /= <<>>
    /\ LET u == Head(queue)
       IN \E nbrs \in Orders(Neighbors(graph, u)) :
            LET r == explore(lca, u, nbrs)
            IN /\ lca' = r.lca
               /\ queue' = Tail(queue) \o r.to_explore
               /\ order' = Append(order, u)
    /\ UNCHANGED <<graph, root, pc, last>>
    /\ UNCHANGED <<heapVars, dsVars>>

\* The BFS loop's exit, line 61, and the return of the table, line 65.
BfsBreak ==
    /\ pc = "bfs"
    /\ queue = <<>>
    /\ pc' = "built"
    /\ UNCHANGED <<graph, root, lca, queue, order, last>>
    /\ UNCHANGED <<heapVars, dsVars>>

\* The table after a call of a method taking &self (line 80).
AfterQuery(t) == t

\* A call lca(u, v) on the built table; the caller holds its result in last.
Query(u, v) ==
    /\ pc = "built"
    /\ last = NoCall
    /\ last' = [u |-> u, v |-> v, res |-> lca_query(lca, u, v), before |-> lca]
    /\ lca' = AfterQuery(lca)
    /\ UNCHANGED <<graph, root, queue, order, pc>>
    /\ UNCHANGED <<heapVars, dsVars>>

QueryArgs == 0..graph.n \cup {NONE}

\* The caller is done with the result of its last call (as each assert_eq!
\* of tests::it_answers_simple_queries is); the table stays for the next call.
DropResult ==
    /\ pc = "built"
    /\ last /= NoCall
    /\ last' = NoCall
    /\ UNCHANGED <<graph, root, lca, queue, order, pc>>
    /\ UNCHANGED <<heapVars, dsVars>>

\* Some call lca(u, v), in range or not.
SomeQuery == \E u, v \in QueryArgs : Query(u, v)

\* No DisjointSet in use.
DsIdle ==
    /\ parent = <<>>
    /\ size = <<>>
    /\ rank = <<>>
    /\ blocks = {}
    /\ ds_last = [op |-> "none", u |-> 0, v |-> 0, ret |-> 0, before |-> {}]

(***************************************************************************)
(* src/src/heap.rs. The Vec xs is a sequence: index i of the source is     *)
(* position i + 1. An Option is <<>> (None) or <<x>> (Some(x)).            *)
(***************************************************************************)
None == <<>>
Some(x) == <<x>>

At(s, i) == s[i + 1]

\* Vec::swap(i, j)
Swap(s, i, j) == [s EXCEPT ![i + 1] = s[j + 1], ![j + 1] = s[i + 1]]

\* Heap::parent
Heap_parent(i) == IF i = 0 THEN None ELSE Some((i - 1) \div 2)

\* Heap::left_child
left_child(s, i) == LET j == 2 * i + 1 IN IF j >= Len(s) THEN None ELSE Some(j)

\* Heap::right_child
right_child(s, i) == LET j == 2 * i + 2 IN IF j >= Len(s) THEN None ELSE Some(j)

\* Heap::push, lines 58-65: the loop moving index i up.
RECURSIVE sift_up(_, _)
sift_up(s, i) ==
    IF Heap_parent(i) = None THEN s
    ELSE LET j == Heap_parent(i)[1]
         IN IF At(s, i) > At(s, j) THEN sift_up(Swap(s, i, j), j) ELSE s

\* Heap::push
push(s, x) == sift_up(Append(s, x), Len(s))

\* Heap::peek
peek(s) == IF Len(s) = 0 THEN None ELSE Some(At(s, 0))

\* Mutant of sift_down: the right child is never looked at.
RECURSIVE sift_down_left_only(_, _)
sift_down_left_only(s, i) ==
    IF left_child(s, i) = None THEN s
    ELSE LET l == left_child(s, i)[1]
         IN IF At(s, i) < At(s, l) THEN sift_down_left_only(Swap(s, i, l), l) ELSE s

\* Heap::pop, lines 92-118: the loop moving index i down.
RECURSIVE sift_down(_, _)
sift_down(s, i) ==
    IF left_child(s, i) = None THEN s
    ELSE LET l == left_child(s, i)[1]
         IN IF right_child(s, i) /= None
            THEN LET r == right_child(s, i)[1]
                 IN IF At(s, l) < At(s, r)
                    THEN IF At(s, i) < At(s, r) THEN sift_down(Swap(s, i, r), r) ELSE s
                    ELSE IF At(s, i) < At(s, l) THEN sift_down(Swap(s, i, l), l) ELSE s
            ELSE IF At(s, i) < At(s, l) THEN sift_down(Swap(s, i, l), l) ELSE s

\* Heap::pop: [xs |-> the vector afterwards, ret |-> the returned Option].
pop(s) ==
    IF Len(s) = 0 THEN [xs |-> s, ret |-> None]
    ELSE LET n == Len(s)
             swapped == Swap(s, 0, n - 1)
             popped_elem == Some(At(swapped, n - 1))
         IN [xs |-> sift_down(SubSeq(swapped, 1, n - 1), 0), ret |-> popped_elem]

\* Heap::new
HeapIdle == xs = <<>> /\ h_last = [op |-> "new", arg |-> None, ret |-> None, before |-> <<>>]

Push(x) ==
    /\ Len(xs) < MaxHeap
    /\ xs' = push(xs, x)
    /\ h_last' = [op |-> "push", arg |-> Some(x), ret |-> None, before |-> xs]
    /\ UNCHANGED <<lcaVars, dsVars>>

SomePush == \E x \in 0..MaxVal : Push(x)

Pop ==
    /\ xs' = pop(xs).xs
    /\ h_last' = [op |-> "pop", arg |-> None, ret |-> pop(xs).ret, before |-> xs]
    /\ UNCHANGED <<lcaVars, dsVars>>

Peek ==
    /\ xs' = xs
    /\ h_last' = [op |-> "peek", arg |-> None, ret |-> peek(xs), before |-> xs]
    /\ UNCHANGED <<lcaVars, dsVars>>

InitHeap == LcaIdle /\ HeapIdle /\ DsIdle
NextHeap ==
    \/ SomePush
    \/ Pop
    \/ Peek
SpecHeap == InitHeap /\ [][NextHeap]_vars

(***************************************************************************)
(* src/src/disjoint_set.rs. A DisjointSet value is a record                *)
(* [parent, size, rank] of functions on 0..n-1.                            *)
(***************************************************************************)

\* DisjointSet::new
DisjointSet_new(n) ==
    [parent |-> [u \in 0..(n - 1) |-> u],
     size |-> [u \in 0..(n - 1) |-> 1],
     rank |-> [u \in 0..(n - 1) |-> 0]]

\* DisjointSet::root on the parent vector p: [parent |-> the vector after the
\* path optimization, r |-> the root found].
RECURSIVE DisjointSet_root(_, _)
DisjointSet_root(p, u) ==
    IF p[u] = u THEN [parent |-> p, r |-> u]
    ELSE LET res == DisjointSet_root(p, p[u])
         IN [parent |-> [res.parent EXCEPT ![u] = res.r], r |-> res.r]

\* Mutant of join: the element u, not its root r1, is hung below r2.
join_links_element(s, u, v) ==
    LET f1 == DisjointSet_root(s.parent, u)
        f2 == DisjointSet_root(f1.parent, v)
        r1 == f1.r
        r2 == f2.r
        p == f2.parent
    IN IF r1 /= r2
       THEN IF s.rank[r1] <= s.rank[r2]
            THEN [ds |-> [parent |-> [p EXCEPT ![u] = r2],
                          size |-> [s.size EXCEPT ![r2] = s.size[r2] + s.size[r1]],
                          rank |-> IF s.rank[r1] = s.rank[r2]
                                   THEN [s.rank EXCEPT ![r2] = s.rank[r2] + 1]
                                   ELSE s.rank],
                  ret |-> TRUE]
            ELSE [ds |-> [parent |-> [p EXCEPT ![r2] = r1],
                          size |-> [s.size EXCEPT ![r1] = s.size[r1] + s.size[r2]],
                          rank |-> s.rank],
                  ret |-> TRUE]
       ELSE [ds |-> [s EXCEPT !.parent = p], ret |-> FALSE]

\* Mutant of join: the else branch adds size[r1] to size[r2], as the first
\* branch does, instead of size[r2] to size[r1].
join_size_swapped(s, u, v) ==
    LET f1 == DisjointSet_root(s.parent, u)
        f2 == DisjointSet_root(f1.parent, v)
        r1 == f1.r
        r2 == f2.r
        p == f2.parent
    IN IF r1 /= r2
       THEN IF s.rank[r1] <= s.rank[r2]
            THEN [ds |-> [parent |-> [p EXCEPT ![r1] = r2],
                          size |-> [s.size EXCEPT ![r2] = s.size[r2] + s.size[r1]],
                          rank |-> IF s.rank[r1] = s.rank[r2]
                                   THEN [s.rank EXCEPT ![r2] = s.rank[r2] + 1]
                                   ELSE s.rank],
                  ret |-> TRUE]
            ELSE [ds |-> [parent |-> [p EXCEPT ![r2] = r1],
                          size |-> [s.size EXCEPT ![r2] = s.size[r2] + s.size[r1]],
                          rank |-> s.rank],
                  ret |-> TRUE]
       ELSE [ds |-> [s EXCEPT !.parent = p], ret |-> FALSE]

\* DisjointSet::join: [ds |-> the value afterwards, ret |-> the returned bool].
join(s, u, v) ==
    LET f1 == DisjointSet_root(s.parent, u)
        f2 == DisjointSet_root(f1.parent, v)
        r1 == f1.r
        r2 == f2.r
        p == f2.parent
    IN IF r1 /= r2
       THEN IF s.rank[r1] <= s.rank[r2]
            THEN [ds |-> [parent |-> [p EXCEPT ![r1] = r2],
                          size |-> [s.size EXCEPT ![r2] = s.size[r2] + s.size[r1]],
                          rank |-> IF s.rank[r1] = s.rank[r2]
                                   THEN [s.rank EXCEPT ![r2] = s.rank[r2] + 1]
                                   ELSE s.rank],
                  ret |-> TRUE]
            ELSE [ds |-> [parent |-> [p EXCEPT ![r2] = r1],
                          size |-> [s.size EXCEPT ![r1] = s.size[r1] + s.size[r2]],
                          rank |-> s.rank],
                  ret |-> TRUE]
       ELSE [ds |-> [s EXCEPT !.parent = p], ret |-> FALSE]

\* DisjointSet::same_set: both calls of root optimize paths.
same_set(s, u, v) ==
    LET f1 == DisjointSet_root(s.parent, u)
        f2 == DisjointSet_root(f1.parent, v)
    IN [ds |-> [s EXCEPT !.parent = f2.parent], ret |-> (f1.r = f2.r)]

\* DisjointSet::size
DisjointSet_size(s, u) ==
    LET f == DisjointSet_root(s.parent, u)
    IN [ds |-> [s EXCEPT !.parent = f.parent], ret |-> s.size[f.r]]

TheSet == [parent |-> parent, size |-> size, rank |-> rank]
Elements == DOMAIN parent

\* History bookkeeping for blocks (no code of the structure): the class of x
\* in the partition P.
BlockOf(P, x) == CHOOSE B \in P : x \in B

\* The partition P with the classes of u and v made one.
Merged(P, u, v) ==
    (P \ {BlockOf(P, u), BlockOf(P, v)}) \cup {BlockOf(P, u) \cup BlockOf(P, v)}

\* DisjointSet::new(n), any n up to MaxSet.
DsInit ==
    \E n \in 0..MaxSet :
        /\ parent = DisjointSet_new(n).parent
        /\ size = DisjointSet_new(n).size
        /\ rank = DisjointSet_new(n).rank
        /\ blocks = {{u} : u \in 0..(n - 1)}
        /\ ds_last = [op |-> "new", u |-> n, v |-> n, ret |-> 0, before |-> {}]

Join(u, v) ==
    /\ parent' = join(TheSet, u, v).ds.parent
    /\ size' = join(TheSet, u, v).ds.size
    /\ rank' = join(TheSet, u, v).ds.rank
    /\ blocks' = Merged(blocks, u, v)
    /\ ds_last' = [op |-> "join", u |-> u, v |-> v,
                   ret |-> join(TheSet, u, v).ret, before |-> blocks]
    /\ UNCHANGED <<lcaVars, heapVars>>

SameSet(u, v) ==
    /\ parent' = same_set(TheSet, u, v).ds.parent
    /\ UNCHANGED <<size, rank, blocks>>
    /\ ds_last' = [op |-> "same_set", u |-> u, v |-> v,
                   ret |-> same_set(TheSet, u, v).ret, before |-> blocks]
    /\ UNCHANGED <<lcaVars, heapVars>>

Size(u) ==
    /\ parent' = DisjointSet_size(TheSet, u).ds.parent
    /\ UNCHANGED <<size, rank, blocks>>
    /\ ds_last' = [op |-> "size", u |-> u, v |-> u,
                   ret |-> DisjointSet_size(TheSet, u).ret, before |-> blocks]
    /\ UNCHANGED <<lcaVars, heapVars>>

SomeJoin == \E u, v \in Elements : Join(u, v)
SomeSameSet == \E u, v \in Elements : SameSet(u, v)
SomeSize == \E u \in Elements : Size(u)

InitDS == LcaIdle /\ HeapIdle /\ DsInit
NextDS ==
    \/ SomeJoin
    \/ SomeSameSet
    \/ SomeSize
SpecDS == InitDS /\ [][NextDS]_vars

InitLCA == LcaInit /\ HeapIdle /\ DsIdle
NextLCA ==
    \/ NewBegin
    \/ BfsStep
    \/ BfsBreak
    \/ SomeQuery
    \/ DropResult
SpecLCA == InitLCA /\ [][NextLCA]_vars

(***************************************************************************)
(* Graph-theoretic reference definitions, independent of the table.        *)
(***************************************************************************)
Vertices(g) == 0..(g.n - 1)

\* The vertices reachable from the set S.
RECURSIVE ReachFrom(_, _)
ReachFrom(g, S) ==
    LET T == S \cup {v \in Vertices(g) : \E u \in S : {u, v} \in g.edges}
    IN IF T = S THEN S ELSE ReachFrom(g, T)

Connected(g) == g.n >= 1 /\ ReachFrom(g, {0}) = Vertices(g)

\* A connected acyclic graph: connected with n - 1 edges.
IsTree(g) == Connected(g) /\ Cardinality(g.edges) = g.n - 1

\* The number of edges on a shortest path from a vertex of S to b (b reachable).
RECURSIVE DistFrom(_, _, _, _)
DistFrom(g, S, b, d) ==
    IF b \in S THEN d
    ELSE DistFrom(g, S \cup {v \in Vertices(g) : \E u \in S : {u, v} \in g.edges}, b, d + 1)

Dist(g, a, b) == DistFrom(g, {a}, b, 0)

\* In a tree: the vertices on the path from a to b.
PathOf(g, a, b) ==
    {w \in Vertices(g) : Dist(g, a, w) + Dist(g, w, b) = Dist(g, a, b)}

\* In a tree rooted at r: the vertices on both the r-to-u and the r-to-v path.
CommonAncestors(g, r, u, v) == PathOf(g, r, u) \cap PathOf(g, r, v)

\* In a tree rooted at r: the ancestor of v that is k steps above it.
AncestorAt(g, r, v, k) ==
    CHOOSE w \in PathOf(g, r, v) : Dist(g, w, v) = k

ValidInput == IsTree(graph) /\ root \in Vertices(graph)
Built == pc = "built"
Queried == last.res.status /= "none"
QueriedInRange == Queried /\ last.u \in Vertices(graph) /\ last.v \in Vertices(graph)

(***************************************************************************)
(* Claims about src/src/lca.rs, checked under SpecLCA.                     *)
(***************************************************************************)

\* C1: on the table built from a tree, for every root and every pair of
\* vertices u, v, lca(u, v) returns a vertex on both the root-to-u and the
\* root-to-v path, and no deeper vertex lies on both paths.
C1_LcaIsLowestCommonAncestor ==
    (Built /\ ValidInput /\ QueriedInRange) =>
        /\ last.res.status = "ok"
        /\ last.res.value \in CommonAncestors(graph, root, last.u, last.v)
        /\ \A w \in CommonAncestors(graph, root, last.u, last.v) :
              Dist(graph, root, w) <= Dist(graph, root, last.res.value)

\* C1 witness: a query whose two vertices sit at different depths in
\* different branches, answered by a vertex that is neither of them nor the root.
C1_Witness ==
    /\ Built /\ ValidInput /\ QueriedInRange
    /\ last.res.status = "ok"
    /\ last.res.value \notin {last.u, last.v, root}
    /\ lca.depth[last.u] > lca.depth[last.v] + 1

\* C2 (the claim as stated): when some vertex is not reachable from the
\* root, LCA::new does not return a table.
C2_UnreachableVertexRejected ==
    (root \in Vertices(graph) /\ ReachFrom(graph, {root}) /= Vertices(graph))
        => ~Built

\* C3: in the table built from a tree, depth[root] = 0 and every other vertex
\* v has depth[v] = depth[parent(v)] + 1, where parent(v) = jump_table[0][v]
\* is the neighbour of v on the path to the root.
C3_DepthIsParentDepthPlusOne ==
    (Built /\ ValidInput) =>
        /\ lca.depth[root] = 0
        /\ \A v \in Vertices(graph) \ {root} :
              LET p == lca.jump_table[0][v]
              IN /\ p \in Neighbors(graph, v)
                 /\ p \in PathOf(graph, root, v)
                 /\ lca.depth[v] = lca.depth[p] + 1

\* C3 witness: a built table of a tree with a vertex three levels down.
C3_Witness ==
    /\ Built /\ ValidInput
    /\ root /= 0
    /\ \E v \in Vertices(graph) : lca.depth[v] = 3

\* C4: in the table built from a tree, jump_table[i][v] is the ancestor
\* exactly 2^i steps above v when depth[v] >= 2^i and NONE otherwise.
C4_JumpTableIsPowerOfTwoAncestor ==
    (Built /\ ValidInput) =>
        \A i \in 0..(Levels(lca) - 1) : \A v \in Vertices(graph) :
            IF lca.depth[v] >= Pow2(i)
            THEN lca.jump_table[i][v] = AncestorAt(graph, root, v, Pow2(i))
            ELSE lca.jump_table[i][v] = NONE

\* C4 witness: a built table with three levels, a vertex that has an
\* ancestor four steps up and one that has none two steps up.
C4_Witness ==
    /\ Built /\ ValidInput
    /\ Levels(lca) = 3
    /\ lca.jump_table[0][root] = NONE
    /\ \E v \in Vertices(graph) : lca.jump_table[2][v] = root
    /\ \E v \in Vertices(graph) : v /= root /\ lca.jump_table[1][v] = NONE

IsPathInput == graph.n >= 1 /\ graph = PathGraph(graph.n) /\ root = 0

\* C5: on the path 0-1-...-(n-1) rooted at 0, lca(u, v) = min(u, v); for
\* n = 1 there are no levels, the jump table is empty and lca(0, 0) = 0.
C5_PathLcaIsMin ==
    (Built /\ IsPathInput) =>
        /\ QueriedInRange => last.res = Ok(Min2(last.u, last.v))
        /\ graph.n = 1 =>
              /\ Levels(lca) = 0
              /\ DOMAIN lca.jump_table = {}
              /\ lca_query(lca, 0, 0) = Ok(0)

\* C5 witness: a query between two distinct inner vertices of the longest path.
C5_Witness ==
    /\ Built /\ IsPathInput /\ QueriedInRange
    /\ graph.n = MaxPath
    /\ last.u = MaxPath - 1
    /\ last.v = 2
    /\ last.res = Ok(2)

\* C6: a call lca(u, v) with u or v outside [0, n) fails (the bounds check
\* of line 82 panics) and returns no vertex; the call leaves depth and
\* jump_table as they were, so every query answers as before.
C6_OutOfRangeQueryFails ==
    (Built /\ Queried
        /\ (last.u \notin Vertices(graph) \/ last.v \notin Vertices(graph)))
    => /\ last.res.status = "panic"
       /\ lca = last.before
       /\ \A a, b \in Vertices(graph) :
             lca_query(lca, a, b) = lca_query(last.before, a, b)

\* C6 witness: a failed call with one argument in range and the other equal
\* to n, on a table with at least three vertices.
C6_Witness ==
    /\ Built /\ graph.n >= 3
    /\ last.u = 1 /\ last.v = graph.n
    /\ last.res.status = "panic"

\* C7: LCA::new fails when root is outside [0, n), which is every root when
\* n = 0; the failure happens before the BFS loop dequeues anything and no
\* table is returned, so no query is possible.
C7_InvalidRootFailsBeforeBfs ==
    (root \notin Vertices(graph)) =>
        /\ pc \in {"call", "panic"}
        /\ order = <<>>
        /\ last = NoCall
        /\ lca = NewTable(0, 0)

\* C7 witness: the failed construction on a non-empty graph.
C7_Witness ==
    /\ pc = "panic"
    /\ graph.n >= 2 /\ graph.edges /= {}
    /\ root = graph.n

\* C7, the empty graph: the failed construction with n = 0.
C7_WitnessEmpty == pc = "panic" /\ graph.n = 0

(***************************************************************************)
(* Claims about src/src/heap.rs, checked under SpecHeap.                   *)
(***************************************************************************)
Values == 0..MaxVal

\* How often x occurs in the sequence s.
CountIn(s, x) == Cardinality({i \in DOMAIN s : s[i] = x})

\* The largest element of the non-empty sequence s.
MaxOf(s) == CHOOSE x \in Values : CountIn(s, x) > 0 /\ \A i \in DOMAIN s : s[i] <= x

\* C8: pop removes and returns a largest element of the multiset stored
\* (push having added exactly its argument to it), peek returns that element
\* and removes nothing; on an empty heap both return None and it stays empty.
C8_PopReturnsLargest ==
    LET b == h_last.before
    IN /\ h_last.op = "push" =>
            \A x \in Values :
                CountIn(xs, x) = CountIn(b, x) + (IF h_last.arg = Some(x) THEN 1 ELSE 0)
       /\ h_last.op = "pop" =>
            IF b = <<>> THEN h_last.ret = None /\ xs = <<>>
            ELSE /\ h_last.ret = Some(MaxOf(b))
                 /\ \A x \in Values :
                       CountIn(xs, x) = CountIn(b, x) - (IF x = MaxOf(b) THEN 1 ELSE 0)
       /\ h_last.op = "peek" =>
            /\ xs = b
            /\ h_last.ret = (IF b = <<>> THEN None ELSE Some(MaxOf(b)))
            /\ pop(xs).ret = h_last.ret

\* C8 witness: a pop from a full heap after which the element moved to the
\* top went down the right branch.
C8_Witness ==
    /\ h_last.op = "pop"
    /\ Len(h_last.before) = MaxHeap
    /\ h_last.ret = Some(MaxVal)
    /\ xs[1] = h_last.before[3]
    /\ xs[1] /= xs[3]
    /\ xs[1] /= h_last.before[2]

(***************************************************************************)
(* Claims about src/src/disjoint_set.rs, checked under SpecDS.             *)
(***************************************************************************)

\* The partition the structure represents: elements with the same root.
PartitionOf(p) ==
    {{v \in DOMAIN p : DisjointSet_root(p, v).r = DisjointSet_root(p, u).r} : u \in DOMAIN p}

Related(P, u, v) == \E B \in P : u \in B /\ v \in B

\* C9: same_set(u, v) is true exactly when u and v are related by the closure
\* of the joined pairs; join(u, v) returns false and leaves the partition as it
\* was when they already are, and otherwise returns true and merges exactly
\* the two sets of u and v.
C9_JoinAndSameSetFollowClosure ==
    /\ \A u, v \in Elements : same_set(TheSet, u, v).ret = Related(blocks, u, v)
    /\ ds_last.op = "same_set" =>
          /\ ds_last.ret = Related(blocks, ds_last.u, ds_last.v)
          /\ PartitionOf(parent) = ds_last.before
    /\ ds_last.op = "join" =>
          IF Related(ds_last.before, ds_last.u, ds_last.v)
          THEN ds_last.ret = FALSE /\ PartitionOf(parent) = ds_last.before
          ELSE /\ ds_last.ret = TRUE
               /\ PartitionOf(parent) = Merged(ds_last.before, ds_last.u, ds_last.v)

\* C9 witness: a join of two two-element sets, through elements that are not
\* both roots.
C9_Witness ==
    /\ ds_last.op = "join" /\ ds_last.ret = TRUE
    /\ Cardinality(BlockOf(ds_last.before, ds_last.u)) = 2
    /\ Cardinality(BlockOf(ds_last.before, ds_last.v)) = 2
    /\ \E x \in Elements : parent[x] /= x /\ parent[parent[x]] /= parent[x]

\* C10: for every element u, size(u) is the number of elements of the set
\* that contains u (1 right after construction).
C10_SizeIsCardinality ==
    /\ \A u \in Elements :
          DisjointSet_size(TheSet, u).ret = Cardinality(BlockOf(blocks, u))
    /\ ds_last.op = "size" => ds_last.ret = Cardinality(BlockOf(blocks, ds_last.u))
    /\ ds_last.op = "new" => \A u \in Elements : DisjointSet_size(TheSet, u).ret = 1

\* C10 witness: size answered 4 for an element that is not the root of its
\* set, while the former root of a two-element set still holds the stale 2.
C10_Witness ==
    /\ ds_last.op = "size" /\ ds_last.ret = 4
    /\ rank[ds_last.u] = 0
    /\ size[ds_last.u] = 1
    /\ \E x \in Elements : size[x] = 2 /\ parent[x] /= x

\* C11: on the table built from a tree, levels has enough bits for every
\* depth, and for every vertex w and every k <= depth[w], jump(w, k) is the
\* ancestor of w k steps up (the vertex of the root-to-w path at graph
\* distance k from w), at depth depth[w] - k, never NONE; so the two
\* vertices lca(u, v) holds after its depth-equalizing jumps are vertices of
\* equal depth, ancestors of (or equal to) u and v.
C11_JumpWithinDepthIsAncestor ==
    (Built /\ ValidInput) =>
        /\ \A w \in Vertices(graph) :
              /\ lca.depth[w] < Pow2(Levels(lca))
              /\ \A k \in 0..lca.depth[w] :
                    LET a == jump(lca, w, k)
                    IN /\ a /= NONE
                       /\ a \in Vertices(graph)
                       /\ Dist(graph, a, w) = k
                       /\ Dist(graph, root, a) + k = Dist(graph, root, w)
                       /\ lca.depth[a] = lca.depth[w] - k
        /\ QueriedInRange =>
              LET e == equalize(lca, last.u, last.v)
              IN /\ e.u \in PathOf(graph, root, last.u)
                 /\ e.v \in PathOf(graph, root, last.v)
                 /\ lca.depth[e.u] = lca.depth[e.v]
                 /\ lca.depth[e.u] = Min2(lca.depth[last.u], lca.depth[last.v])

\* C11 witness: a query whose deeper vertex is lifted by 3 = 11b levels, on
\* a table with three levels, to a vertex that is not the other one.
C11_Witness ==
    /\ Built /\ ValidInput /\ QueriedInRange
    /\ Levels(lca) = 3
    /\ lca.depth[last.u] = lca.depth[last.v] + 3
    /\ equalize(lca, last.u, last.v).u /= last.v
    /\ equalize(lca, last.u, last.v).u /= NONE

\* The vertices whose depth is set: the root and the vertices discovered so far.
Discovered(t) == {v \in DOMAIN t.depth : t.depth[v] /= NONE}

\* While LCA::new runs and afterwards: the vertices were dequeued in
\* non-decreasing depth order, nothing still queued is shallower than a
\* dequeued vertex, and the parent of every dequeued vertex but the root was
\* dequeued before it.
DequeuedInDepthOrder ==
    (pc \in {"bfs", "built"}) =>
        /\ \A i, j \in DOMAIN order :
              i < j => lca.depth[order[i]] <= lca.depth[order[j]]
        /\ \A i \in DOMAIN order : \A q \in DOMAIN queue :
              lca.depth[order[i]] <= lca.depth[queue[q]]
        /\ \A j \in DOMAIN order :
              order[j] /= root =>
                  \E i \in 1..(j - 1) : order[i] = lca.jump_table[0][order[j]]

\* One step of LCA::new after the allocation, or a later call on the table:
\* no entry of a vertex already discovered is written, and the entries of a
\* newly discovered vertex v come from the dequeued vertex and from entries,
\* written before this step, of vertices discovered before this step.
EntriesFinalWhenRead ==
    (pc \in {"bfs", "built"}) =>
        /\ DOMAIN lca'.depth = DOMAIN lca.depth
        /\ \A v \in Discovered(lca) :
              /\ lca'.depth[v] = lca.depth[v]
              /\ \A i \in DOMAIN lca.jump_table :
                    lca'.jump_table[i][v] = lca.jump_table[i][v]
        /\ \A v \in Discovered(lca') \ Discovered(lca) :
              /\ queue /= <<>>
              /\ lca'.jump_table[0][v] = Head(queue)
              /\ Head(queue) \in Discovered(lca)
              /\ lca'.depth[v] = lca.depth[Head(queue)] + 1
              /\ \A i \in 1..(Levels(lca) - 1) :
                    LET a == lca'.jump_table[i - 1][v]
                    IN IF a /= NONE
                       THEN /\ a \in Discovered(lca)
                            /\ lca'.jump_table[i][v] = lca.jump_table[i - 1][a]
                       ELSE lca'.jump_table[i][v] = NONE

\* C12: during LCA::new the BFS dequeues vertices in non-decreasing depth
\* order, and when the jump-table entries of a newly discovered vertex are
\* computed, the depth and the entries of its parent and of every ancestor
\* read were written before and are never written again.
C12_BfsOrderAndFinalEntries ==
    [][DequeuedInDepthOrder' /\ EntriesFinalWhenRead]_vars

\* C12 witness: the BFS under way on a graph that is no tree, two vertices
\* dequeued, and in the queue a vertex at depth 2 beside one at depth 1.
C12_Witness ==
    /\ pc = "bfs"
    /\ ~IsTree(graph)
    /\ Len(order) = 2
    /\ \E q \in DOMAIN queue :
          /\ lca.depth[queue[q]] = 2
          /\ lca.jump_table[1][queue[q]] = root
    /\ \E q \in DOMAIN queue : lca.depth[queue[q]] = 1

====
